---- MODULE Spec2Model ----
(***************************************************************************)
(* State-machine model of cdrg/ttsutil: the two Pack Synchronizers         *)
(* (ttsfromtemplate_awspolly, ttsfromtemplate_ttsmonster) and the Fleet    *)
(* Orchestrator (update_all_soundpacks).                                   *)
(*                                                                         *)
(* Volumes are in tenths of a dB (-0.5 dB is -5).  A text is represented   *)
(* by its length, a file by its state and size.  The provider, the         *)
(* temporary-file layer and ffmpeg are the environment: every outcome the  *)
(* code distinguishes is a nondeterministic choice.                        *)
(***************************************************************************)
EXTENDS Integers, Sequences, FiniteSets, TLC

----------------------------------------------------------------------------
(* Program constants *)

\* ttsfromtemplate_ttsmonster.py:45  MAX_VOL_DB_OFFSET = -0.5 (tenths of dB)
MAX_VOL_DB_OFFSET ==
    -5
\* ttsfromtemplate_ttsmonster.py:46
SHORT_TEXT_LENGTH ==
    9
\* ttsfromtemplate_ttsmonster.py:47
BIT_ALLOWANCE_PER_CHAR ==
    2048
\* ttsfromtemplate_ttsmonster.py:48
EXTRA_BITS_FOR_SHORT ==
    1024
\* ttsfromtemplate_awspolly.py:217  literal -0.5 of "input_max_volume < -0.5"
POLLY_PEAK_LIMIT ==
    -5
\* ttsfromtemplate_awspolly.py:218  literal 0.5 of "-input_max_volume - 0.5"
POLLY_CLIP_MARGIN ==
    5

----------------------------------------------------------------------------
(* Bounds of the model *)

\* longest manifest
MaxLen ==
    2
\* number of synchronizer runs on the same directory
MaxRuns ==
    2
\* longest manifest of a fleet-wide run
FleetMaxLen ==
    1
\* longest existing template of a createttstemplate run
MergeMaxOld ==
    2
\* most files os.walk yields in a createttstemplate run
MergeMaxWalk ==
    2

----------------------------------------------------------------------------
(* Input domains *)

\* "rate='fast'" in ssml_text
HasRateFast(ssml_text) == ssml_text = "<prosody rate='fast'>"

\* The template items {path, tts_text, ssml_text} a manifest is drawn from;
\* tts_len is len(tts_text).  One text at the short-text threshold and two just
\* above it; no markup, markup with rate='fast', markup without it.  A manifest
\* may name the same item twice.
Entries ==
    {[path |-> "a/x.mp3", tts_len |-> SHORT_TEXT_LENGTH, ssml_text |-> ""],
     [path |-> "a/y.mp3", tts_len |-> SHORT_TEXT_LENGTH + 1,
      ssml_text |-> "<prosody rate='fast'>"],
     [path |-> "b/z.mp3", tts_len |-> SHORT_TEXT_LENGTH + 1, ssml_text |-> "<emphasis>"]}

Paths == {e.path : e \in Entries}

RECURSIVE SeqsUpTo(_, _)
SeqsUpTo(S, n) ==
    IF n = 0 THEN {<<>>}
    ELSE LET shorter == SeqsUpTo(S, n - 1)
         IN  shorter \cup {Append(s, e) : s \in {t \in shorter : Len(t) = n - 1}, e \in S}

Manifests == SeqsUpTo(Entries, MaxLen)

FleetManifests == SeqsUpTo(Entries, FleetMaxLen)

\* contents of the template file: absent, malformed JSON (json.JSONDecodeError),
\* undecodable bytes (UnicodeDecodeError), or a manifest
TemplateFiles ==
    {[kind |-> k, data |-> <<>>] : k \in {"missing", "malformed", "undecodable"}}
        \cup {[kind |-> "ok", data |-> m] : m \in Manifests}

Providers == {"awspolly", "ttsm"}

\* Pack directory names "<SERVICE>-<Voice>": service is the text before the first
\* '-', voice the text after it (soundpack_dir.name.split("-", 1)).
PollyBrian == [service |-> "AWSPolly", voice |-> "Brian"]
TtsmAlpha == [service |-> "ttsm", voice |-> "Alpha"]
TtsmBeta == [service |-> "TTSM", voice |-> "Beta"]

DirNames == {PollyBrian, TtsmAlpha, TtsmBeta}

\* variant: the directory name is compared as it is written
Lower_Identity(str) == str

\* str.lower() on the service names in use
Lower(str) ==
    CASE str = "AWSPolly" -> "awspolly"
      [] str = "TTSM" -> "ttsm"
      [] OTHER -> str

\* peaks ffmpeg volumedetect can report, around both thresholds
Peaks == {-60, -6, -5, -4}

\* sizes of an encoded file for a text of n characters, around both ceilings
Sizes(n) ==
    {BIT_ALLOWANCE_PER_CHAR * n, BIT_ALLOWANCE_PER_CHAR * n + 1,
     (BIT_ALLOWANCE_PER_CHAR + EXTRA_BITS_FOR_SHORT) * n,
     (BIT_ALLOWANCE_PER_CHAR + EXTRA_BITS_FOR_SHORT) * n + 1}

\* states of a file <dir>/sounds/<path>: not there, there before the first run,
\* written completely by a run, or left behind by a failed ffmpeg run.  The size
\* of a file is read once, by the quality gate right after the file is written
\* (out_size); no code reads the size of a file that exists when it is visited.
FileStates == {"absent", "pre", "new", "partial"}

NoFilter == [applied |-> FALSE, db |-> 0]

Unknown == [answer |-> "?", stage |-> "?", analysis |-> "?", encode |-> "?", size |-> 0]

----------------------------------------------------------------------------
VARIABLES
    template_file,   \* contents of the template JSON file
    sounds,          \* sounds[d]: pack directory d has a 'sounds' subdirectory
    files,           \* files[d][p]: the file <d>/sounds/<p>
    tempfiles,       \* number of temporary files that exist
    provider,        \* which synchronizer runs
    output_dir,      \* its output_dir argument
    quality_checks,  \* its quality_checks argument (TTS.Monster only)
    template_data,   \* the list json.load returned
    idx,             \* position of the for loop in template_data (1-based)
    pc,              \* position in the synchronizer
    created_count,
    skipped_count,
    ret,             \* return value, -1 before the return
    max_volume,      \* result of ttsutil.get_max_volume
    out_size,        \* file_fullpath.stat().st_size of the file just encoded
    volume_filter,   \* the volume filter put on the ffmpeg stream
    atempo,          \* whether the atempo filter is on the stream
    calls,           \* provider calls made by this run
    backend,         \* backend[i]: what the environment answered for item i
    outcome,         \* outcome[i]: what this run did with item i
    files0,          \* files of output_dir when the run started
    run,             \* number of the run on this directory
    prev_ret,        \* return value of the previous run on it, -1 if none
    base_dir,        \* the pack directories under base_dir
    fpc,             \* position in update_all_soundpacks ("off": not running)
    fleet_template_data,         \* template_data of update_all_soundpacks
    awspolly_dirs,
    awspolly_num_missing_files,
    awspolly_num_missing_chars,
    ttsm_dirs,
    ttsm_num_missing_files,
    ttsm_num_missing_chars,
    dir_i,           \* position of the current "for soundpack_dir in ..." loop
    fret,            \* return value of update_all_soundpacks, -1 before it
    events,          \* what update_all_soundpacks has done so far, in order
    template,        \* createttstemplate: the list being built
    walk,            \* createttstemplate: the files os.walk has yet to yield
    mpc,             \* position in createttstemplate's main ("off": not running)
    mret,            \* return value of createttstemplate's main, -1 before it
    template0,       \* the list json.load returned to createttstemplate
    walk0            \* all the files os.walk yields in this run, in order

syncVars ==
    <<provider, output_dir, quality_checks, template_data, idx, pc, created_count,
      skipped_count, ret, max_volume, out_size, volume_filter, atempo, calls, backend,
      outcome, files0, run, prev_ret>>

envVars == <<template_file, sounds, files, tempfiles>>

fleetVars ==
    <<base_dir, fpc, fleet_template_data, awspolly_dirs, awspolly_num_missing_files,
      awspolly_num_missing_chars, ttsm_dirs, ttsm_num_missing_files,
      ttsm_num_missing_chars, dir_i, fret, events>>

mergeVars == <<template, walk, mpc, mret, template0, walk0>>

vars == <<envVars, syncVars, fleetVars, mergeVars>>

----------------------------------------------------------------------------
(* Helpers translated from the synchronizers *)

item == template_data[idx]

\* variant: the existence test always fails
FileExists_Never(d, p) == FALSE

\* variant: the existence test looks at the directory, not at the file
FileExists_AnyFile(d, p) == \E q \in Paths : files[d][q] # "absent"

\* file_fullpath.exists()
FileExists(d, p) == files[d][p] # "absent"

\* variant: the 'sounds' subdirectory is not checked
HasSounds_Always(d) == TRUE

\* sounds_dir.exists() and sounds_dir.is_dir(), sounds_dir = <pack directory>/sounds
HasSounds(d) == sounds[d]

\* variant: ttsm has no handler for ConnectionError / ReadTimeout
SkipsJob_NoTransient(prov, answer) == prov = "awspolly" /\ answer = "InvalidSsmlException"

\* the except clauses around the provider call that "continue"
SkipsJob(prov, answer) ==
    \/ prov = "ttsm" /\ answer = "ConnectionError"
    \/ prov = "awspolly" /\ answer = "InvalidSsmlException"

\* the except clauses and response checks around the provider call that "return 1"
AbortsRun(prov, answer) ==
    \/ prov = "ttsm" /\ answer \in {"TTSMAPIError", "no_url"}
    \/ prov = "awspolly" /\ answer \in {"BotoCoreError", "no_audio"}

\* awspolly: TextType sent; ttsm has no text type
TextType(prov, ssml_text) ==
    IF prov = "awspolly" THEN (IF ssml_text # "" THEN "ssml" ELSE "text") ELSE "text"

\* variant: the plain text is sent whatever the provider
TextSent_AlwaysPlain(prov, ssml_text) == "tts_text"

\* which of the item's two texts is sent
TextSent(prov, ssml_text) ==
    IF prov = "awspolly" /\ ssml_text # "" THEN "ssml_text" ELSE "tts_text"

\* "if max_volume < MAX_VOL_DB_OFFSET" / "if input_max_volume < -0.5"
NeedsGain(prov, p) ==
    IF prov = "ttsm" THEN p < MAX_VOL_DB_OFFSET ELSE p < POLLY_PEAK_LIMIT

\* "-max_volume - MAX_VOL_DB_OFFSET" / "-input_max_volume - 0.5"
VolumeAdjustment(prov, p) ==
    IF prov = "ttsm" THEN (-p) - MAX_VOL_DB_OFFSET ELSE (-p) - POLLY_CLIP_MARGIN

\* variant: the short-text allowance is given below the threshold only
MaxSize_StrictShort(n) ==
    IF n < SHORT_TEXT_LENGTH
    THEN BIT_ALLOWANCE_PER_CHAR * n + EXTRA_BITS_FOR_SHORT * n
    ELSE BIT_ALLOWANCE_PER_CHAR * n

\* max_size of the quality gate
MaxSize(n) ==
    IF n <= SHORT_TEXT_LENGTH
    THEN BIT_ALLOWANCE_PER_CHAR * n + EXTRA_BITS_FOR_SHORT * n
    ELSE BIT_ALLOWANCE_PER_CHAR * n

\* variant: the oversized file is only logged, never removed
Rejects_Never(qc, size, n) == FALSE

\* "if quality_checks: ... if file_fullpath.stat().st_size > max_size"
Rejects(qc, size, n) == qc /\ size > MaxSize(n)

\* the counters of the final log line: created, skipped, "total"
RunTally == <<created_count, skipped_count, created_count + skipped_count>>

\* FFMpegExecuteError is caught by awspolly only
CatchesFFMpegExecuteError(prov) == prov = "awspolly"


\* answers of the provider call (one name per except clause or response check)
Answers(prov, ssml_text) ==
    IF prov = "ttsm"
    THEN {"ok", "no_url", "ConnectionError", "TTSMAPIError"}
    ELSE {"ok", "no_audio", "BotoCoreError"}
             \cup (IF ssml_text # "" THEN {"InvalidSsmlException"} ELSE {})

\* results of staging the provider's audio in a temporary file
StageResults(prov) ==
    IF prov = "ttsm" THEN {"ok", "OSError"} ELSE {"ok", "OSError", "OSError_written"}

AnalysisResults == {"ok", "ValueError", "FFMpegExecuteError"}

\* ffmpeg writes straight to file_fullpath: a failed run leaves nothing or a part
EncodeResults == {"ok", "fail_nofile", "fail_partial"}

----------------------------------------------------------------------------
(* The synchronizers: ttsfromtemplate_awspolly, ttsfromtemplate_ttsmonster *)

EndJob ==
    /\ max_volume' = 0
    /\ out_size' = 0
    /\ volume_filter' = NoFilter
    /\ atempo' = FALSE

\* variant: inside update_all_soundpacks the synchronizer uses the list the
\* orchestrator loaded
ReadTemplate_Shared == IF fpc = "off" THEN template_file.data ELSE fleet_template_data

\* "with template_file.open(encoding="utf-8") as f: template_data = json.load(f)"
ReadTemplate == template_file.data

\* the checks before the loop and json.load
Validate ==
    /\ pc = "start"
    /\ IF \/ template_file.kind = "missing"
          \/ ~HasSounds(output_dir)
          \/ template_file.kind \in {"malformed", "undecodable"}
       THEN /\ pc' = "returned"
            /\ ret' = 1
            /\ UNCHANGED <<template_data, idx, created_count, skipped_count>>
       ELSE /\ template_data' = ReadTemplate
            /\ created_count' = 0
            /\ skipped_count' = 0
            /\ idx' = 1
            /\ pc' = "loop"
            /\ ret' = ret
    /\ UNCHANGED <<envVars, provider, output_dir, quality_checks, max_volume,
                   out_size, volume_filter, atempo, calls, backend, outcome, files0, run, prev_ret>>
    /\ UNCHANGED <<fleetVars, mergeVars>>

\* head of the loop body: "skip if file already exists"
Visit ==
    /\ pc = "loop"
    /\ idx <= Len(template_data)
    /\ IF FileExists(output_dir, item.path)
       THEN /\ skipped_count' = skipped_count + 1
            /\ idx' = idx + 1
            /\ outcome' = [outcome EXCEPT ![idx] = "skipped"]
            /\ pc' = pc
       ELSE /\ pc' = "synth"
            /\ UNCHANGED <<skipped_count, idx, outcome>>
    /\ UNCHANGED <<envVars, provider, output_dir, quality_checks, template_data,
                   created_count, ret, max_volume, out_size, volume_filter, atempo, calls,
                   backend, files0, run, prev_ret>>
    /\ UNCHANGED <<fleetVars, mergeVars>>

\* polly_client.synthesize_speech / ttsmapi_client.generate and their handlers
Synthesize ==
    /\ pc = "synth"
    /\ \E a \in Answers(provider, item.ssml_text) :
        /\ backend[idx].answer \in {"?", a}
        /\ backend' = [backend EXCEPT ![idx].answer = a]
        /\ calls' = Append(calls, [i |-> idx, path |-> item.path,
                                   text |-> TextSent(provider, item.ssml_text),
                                   texttype |-> TextType(provider, item.ssml_text)])
        /\ IF a = "ok"
           THEN /\ pc' = "stage"
                /\ UNCHANGED <<idx, ret, outcome>>
           ELSE IF SkipsJob(provider, a)
           THEN /\ pc' = "loop"
                /\ idx' = idx + 1
                /\ outcome' = [outcome EXCEPT ![idx] = a]
                /\ ret' = ret
           ELSE IF AbortsRun(provider, a)
           THEN /\ pc' = "returned"
                /\ ret' = 1
                /\ outcome' = [outcome EXCEPT ![idx] = a]
                /\ idx' = idx
           ELSE /\ pc' = "raised"
                /\ outcome' = [outcome EXCEPT ![idx] = a]
                /\ UNCHANGED <<idx, ret>>
    /\ UNCHANGED <<envVars, provider, output_dir, quality_checks, template_data,
                   created_count, skipped_count, max_volume, out_size, volume_filter, atempo,
                   files0, run, prev_ret>>
    /\ UNCHANGED <<fleetVars, mergeVars>>

\* awspolly: NamedTemporaryFile(delete=False) and f.write(stream.read());
\* ttsm: requests.get, NamedTemporaryFile() and f.write(url_response.content)
Stage ==
    /\ pc = "stage"
    /\ \E s \in StageResults(provider) :
        /\ backend[idx].stage \in {"?", s}
        /\ backend' = [backend EXCEPT ![idx].stage = s]
        /\ IF s = "ok"
           THEN /\ tempfiles' = tempfiles + 1
                /\ pc' = "analyze"
                /\ UNCHANGED <<ret, outcome>>
           ELSE /\ tempfiles' = IF s = "OSError_written" THEN tempfiles + 1 ELSE tempfiles
                /\ pc' = "returned"
                /\ ret' = 1
                /\ outcome' = [outcome EXCEPT ![idx] = "stage_failed"]
    /\ UNCHANGED <<template_file, sounds, files, provider, output_dir, quality_checks,
                   template_data, idx, created_count, skipped_count, max_volume, out_size,
                   volume_filter, atempo, calls, files0, run, prev_ret>>
    /\ UNCHANGED <<fleetVars, mergeVars>>

\* ttsutil.get_max_volume and its handlers
Analyze ==
    /\ pc = "analyze"
    /\ \E v \in AnalysisResults :
        /\ backend[idx].analysis \in {"?", v}
        /\ backend' = [backend EXCEPT ![idx].analysis = v]
        /\ IF v = "ok"
           THEN /\ \E p \in Peaks : max_volume' = p
                /\ pc' = "filter"
                /\ UNCHANGED <<tempfiles, ret, outcome>>
           ELSE /\ tempfiles' = tempfiles - 1
                /\ max_volume' = max_volume
                /\ outcome' = [outcome EXCEPT ![idx] = "analysis_failed"]
                /\ IF v = "ValueError" \/ CatchesFFMpegExecuteError(provider)
                   THEN pc' = "returned" /\ ret' = 1
                   ELSE pc' = "raised" /\ ret' = ret
    /\ UNCHANGED <<template_file, sounds, files, provider, output_dir, quality_checks,
                   template_data, idx, created_count, skipped_count, out_size, volume_filter,
                   atempo, calls, files0, run, prev_ret>>
    /\ UNCHANGED <<fleetVars, mergeVars>>

\* building the ffmpeg stream: atempo (ttsm only) and volume
BuildFilters ==
    /\ pc = "filter"
    /\ atempo' = (provider = "ttsm" /\ HasRateFast(item.ssml_text))
    /\ volume_filter' = IF NeedsGain(provider, max_volume)
                        THEN [applied |-> TRUE, db |-> VolumeAdjustment(provider, max_volume)]
                        ELSE NoFilter
    /\ pc' = "encode"
    /\ UNCHANGED <<envVars, provider, output_dir, quality_checks, template_data, idx,
                   created_count, skipped_count, ret, max_volume, out_size, calls, backend,
                   outcome, files0, run, prev_ret>>
    /\ UNCHANGED <<fleetVars, mergeVars>>

\* output(filename=file_fullpath).run(); awspolly then unlinks the temporary
\* file and counts the item, ttsm goes on to the quality gate
Encode ==
    /\ pc = "encode"
    /\ \E e \in EncodeResults :
        /\ backend[idx].encode \in {"?", e}
        /\ IF e = "ok"
           THEN \E sz \in Sizes(item.tts_len) :
                /\ backend[idx].size \in {0, sz}
                /\ files' = [files EXCEPT ![output_dir][item.path] = "new"]
                /\ IF provider = "awspolly"
                   THEN /\ backend' = [backend EXCEPT ![idx].encode = e]
                        /\ tempfiles' = tempfiles - 1
                        /\ created_count' = created_count + 1
                        /\ idx' = idx + 1
                        /\ outcome' = [outcome EXCEPT ![idx] = "created"]
                        /\ pc' = "loop"
                        /\ EndJob
                   ELSE /\ backend' = [backend EXCEPT ![idx].encode = e]
                        /\ out_size' = sz
                        /\ pc' = "gate"
                        /\ UNCHANGED <<tempfiles, created_count, idx, outcome,
                                       max_volume, volume_filter, atempo>>
                /\ ret' = ret
           ELSE /\ backend' = [backend EXCEPT ![idx].encode = e]
                /\ files' = IF e = "fail_partial"
                            THEN [files EXCEPT ![output_dir][item.path] = "partial"]
                            ELSE files
                /\ tempfiles' = tempfiles - 1
                /\ outcome' = [outcome EXCEPT ![idx] = "encode_failed"]
                /\ IF CatchesFFMpegExecuteError(provider)
                   THEN pc' = "returned" /\ ret' = 1
                   ELSE pc' = "raised" /\ ret' = ret
                /\ UNCHANGED <<created_count, idx, max_volume, out_size, volume_filter,
                               atempo>>
    /\ UNCHANGED <<template_file, sounds, provider, output_dir, quality_checks,
                   template_data, skipped_count, calls, files0, run, prev_ret>>
    /\ UNCHANGED <<fleetVars, mergeVars>>

\* ttsm: the quality gate, the end of the tempfile context and created_count += 1
QualityGate ==
    /\ pc = "gate"
    /\ tempfiles' = tempfiles - 1
    /\ IF Rejects(quality_checks, out_size, item.tts_len)
       THEN /\ files' = [files EXCEPT ![output_dir][item.path] = "absent"]
            /\ outcome' = [outcome EXCEPT ![idx] = "rejected"]
            /\ created_count' = created_count
            /\ backend' = [backend EXCEPT ![idx].size = out_size]
       ELSE /\ files' = files
            /\ outcome' = [outcome EXCEPT ![idx] = "created"]
            /\ created_count' = created_count + 1
            /\ backend' = backend
    /\ idx' = idx + 1
    /\ pc' = "loop"
    /\ EndJob
    /\ UNCHANGED <<template_file, sounds, provider, output_dir, quality_checks,
                   template_data, skipped_count, ret, calls, files0, run, prev_ret>>
    /\ UNCHANGED <<fleetVars, mergeVars>>

\* the loop is exhausted: the final log line and "return 0"
Finish ==
    /\ pc = "loop"
    /\ idx > Len(template_data)
    /\ pc' = "returned"
    /\ ret' = 0
    /\ UNCHANGED <<envVars, provider, output_dir, quality_checks, template_data, idx,
                   created_count, skipped_count, max_volume, out_size, volume_filter, atempo,
                   calls, backend, outcome, files0, run, prev_ret>>
    /\ UNCHANGED <<fleetVars, mergeVars>>

\* the operator runs the same synchronizer again on the same directory and
\* template; the environment answers every request as it did before
Rerun ==
    /\ fpc = "off"
    /\ pc \in {"returned", "raised"}
    /\ run < MaxRuns
    /\ run' = run + 1
    /\ prev_ret' = (IF pc = "returned" THEN ret ELSE -1)
    /\ pc' = "start"
    /\ ret' = -1
    /\ idx' = 1
    /\ created_count' = 0
    /\ skipped_count' = 0
    /\ template_data' = <<>>
    /\ calls' = <<>>
    /\ outcome' = [i \in 1..MaxLen |-> "unvisited"]
    /\ files0' = files[output_dir]
    /\ EndJob
    /\ UNCHANGED <<envVars, provider, output_dir, quality_checks, backend>>
    /\ UNCHANGED <<fleetVars, mergeVars>>

SyncNext ==
    \/ Validate
    \/ Visit
    \/ Synthesize
    \/ Stage
    \/ Analyze
    \/ BuildFilters
    \/ Encode
    \/ QualityGate
    \/ Finish

InitSync ==
    /\ template_file \in TemplateFiles
    /\ provider \in Providers
    /\ output_dir = (IF provider = "awspolly" THEN PollyBrian ELSE TtsmAlpha)
    /\ quality_checks \in (IF provider = "ttsm" THEN BOOLEAN ELSE {FALSE})
    /\ \E has \in BOOLEAN : sounds = [d \in DirNames |-> IF d = output_dir THEN has ELSE TRUE]
    /\ \E present \in SUBSET Paths :
        files = [d \in DirNames |->
                    [p \in Paths |-> IF d = output_dir /\ p \in present
                                     THEN "pre" ELSE "absent"]]
    /\ tempfiles = 0
    /\ template_data = <<>>
    /\ idx = 1
    /\ pc = "start"
    /\ created_count = 0
    /\ skipped_count = 0
    /\ ret = -1
    /\ max_volume = 0
    /\ out_size = 0
    /\ volume_filter = NoFilter
    /\ atempo = FALSE
    /\ calls = <<>>
    /\ backend = [i \in 1..MaxLen |-> Unknown]
    /\ outcome = [i \in 1..MaxLen |-> "unvisited"]
    /\ files0 = files[output_dir]
    /\ run = 1
    /\ prev_ret = -1
    /\ base_dir = {output_dir}
    /\ fpc = "off"
    /\ fleet_template_data = <<>>
    /\ awspolly_dirs = <<>>
    /\ awspolly_num_missing_files = 0
    /\ awspolly_num_missing_chars = 0
    /\ ttsm_dirs = <<>>
    /\ ttsm_num_missing_files = 0
    /\ ttsm_num_missing_chars = 0
    /\ dir_i = 1
    /\ fret = -1
    /\ events = <<>>
    /\ template = <<>>
    /\ walk = <<>>
    /\ mpc = "off"
    /\ mret = -1
    /\ template0 = <<>>
    /\ walk0 = <<>>

Init == InitSync

Next ==
    \/ SyncNext
    \/ Rerun

Spec == Init /\ [][Next]_vars

----------------------------------------------------------------------------
(* The Fleet Orchestrator: _count_missing_for_service, update_all_soundpacks *)

\* variant: every directory matches every prefix
MatchesPrefix_Any(d, service) == TRUE

\* d.is_dir() and d.name.lower().startswith(dir_prefix), dir_prefix = "<service>-"
MatchesPrefix(d, service) == Lower(d.service) = service

\* the orders in which base_dir.iterdir() can list a set of directories
Orders(S) ==
    {o \in [1..Cardinality(S) -> S] : \A i, j \in DOMAIN o : o[i] = o[j] => i = j}

\* the items for which "not file_fullpath.exists()" in pack directory d
MissingIn(d, data) == {i \in 1..Len(data) : files[d][data[i].path] = "absent"}

RECURSIVE SumLen(_, _)
SumLen(data, I) ==
    IF I = {} THEN 0
    ELSE LET i == CHOOSE x \in I : TRUE
         IN  data[i].tts_len + SumLen(data, I \ {i})

RECURSIVE NumMissingFiles(_, _)
NumMissingFiles(dirs, data) ==
    IF dirs = <<>> THEN 0
    ELSE Cardinality(MissingIn(Head(dirs), data)) + NumMissingFiles(Tail(dirs), data)

RECURSIVE NumMissingChars(_, _)
NumMissingChars(dirs, data) ==
    IF dirs = <<>> THEN 0
    ELSE SumLen(data, MissingIn(Head(dirs), data)) + NumMissingChars(Tail(dirs), data)

\* the except clause around json.load names requests' JSONDecodeError (a subclass
\* of json.JSONDecodeError, which json.load raises) and UnicodeDecodeError
OrchestratorCatches(kind) == kind = "undecodable"

\* results of reading the credentials and creating the provider's client
ClientResults == {"ok", "KeyError", "ClientError"}

\* variant: a failed client creation is logged and the run goes on
AuthFatal_Never(c) == FALSE

\* the except clauses around os.environ[...] and the client constructors, which
\* all "return 1"
AuthFatal(c) == c \in {"KeyError", "ClientError"}

\* what the credentials lookup and the client constructor of a group did
ClientEvent(c, who) == [ev |-> IF c = "ok" THEN "client" ELSE "auth_failed", who |-> who]

\* soundpack_dir.name.split("-", 1)[1]
VoiceOf(d) == d.voice

\* the call of a synchronizer as update_all_soundpacks makes it
SyncCall(prov, d) == [ev |-> "sync", who |-> d, prov |-> prov, voice |-> VoiceOf(d)]

\* the synchronizer's variables when it is entered (pcv = "start") or not running
SyncLocals(pcv, prov, d) ==
    /\ pc' = pcv
    /\ provider' = prov
    /\ output_dir' = d
    /\ quality_checks' = (prov = "ttsm")
    /\ template_data' = <<>>
    /\ idx' = 1
    /\ created_count' = 0
    /\ skipped_count' = 0
    /\ ret' = -1
    /\ EndJob
    /\ calls' = <<>>
    /\ backend' = [i \in 1..MaxLen |-> Unknown]
    /\ outcome' = [i \in 1..MaxLen |-> "unvisited"]
    /\ files0' = files[d]
    /\ run' = 1
    /\ prev_ret' = -1

FleetReturn(code) ==
    /\ fpc' = "returned"
    /\ fret' = code

\* the existence checks and json.load
F_Load ==
    /\ fpc = "start"
    /\ IF template_file.kind = "ok"
       THEN /\ fleet_template_data' = template_file.data
            /\ fpc' = "count_awspolly"
            /\ fret' = fret
       ELSE /\ fleet_template_data' = fleet_template_data
            /\ IF template_file.kind = "missing" \/ OrchestratorCatches(template_file.kind)
               THEN FleetReturn(1)
               ELSE fpc' = "raised" /\ fret' = fret
    /\ UNCHANGED <<mergeVars, envVars, syncVars, base_dir, awspolly_dirs, awspolly_num_missing_files,
                   awspolly_num_missing_chars, ttsm_dirs, ttsm_num_missing_files,
                   ttsm_num_missing_chars, dir_i, events>>

\* _count_missing_for_service(dir_prefix="awspolly-"), AWS_PROFILE and the Polly client
F_CountAwspolly ==
    /\ fpc = "count_awspolly"
    /\ \E order \in Orders({d \in base_dir : MatchesPrefix(d, "awspolly")}) :
        /\ awspolly_dirs' = order
        /\ awspolly_num_missing_files' = NumMissingFiles(order, fleet_template_data)
        /\ awspolly_num_missing_chars' = NumMissingChars(order, fleet_template_data)
        /\ IF NumMissingFiles(order, fleet_template_data) > 0
           THEN \E c \in ClientResults :
                /\ events' = Append(events, ClientEvent(c, "awspolly"))
                /\ IF AuthFatal(c)
                   THEN FleetReturn(1)
                   ELSE fpc' = "count_ttsm" /\ fret' = fret
           ELSE /\ events' = events
                /\ fpc' = "count_ttsm"
                /\ fret' = fret
    /\ UNCHANGED <<mergeVars, envVars, syncVars, base_dir, fleet_template_data, ttsm_dirs,
                   ttsm_num_missing_files, ttsm_num_missing_chars, dir_i>>

\* _count_missing_for_service(dir_prefix="ttsm-"), TTSMONSTER_API_KEY, the
\* TTS.Monster client and its user_info
F_CountTtsm ==
    /\ fpc = "count_ttsm"
    /\ \E order \in Orders({d \in base_dir : MatchesPrefix(d, "ttsm")}) :
        /\ ttsm_dirs' = order
        /\ ttsm_num_missing_files' = NumMissingFiles(order, fleet_template_data)
        /\ ttsm_num_missing_chars' = NumMissingChars(order, fleet_template_data)
        /\ IF NumMissingFiles(order, fleet_template_data) > 0
           THEN \E c \in ClientResults :
                /\ events' = Append(events, ClientEvent(c, "ttsm"))
                /\ IF AuthFatal(c)
                   THEN FleetReturn(1)
                   ELSE fpc' = "prompt" /\ fret' = fret
           ELSE /\ events' = events
                /\ fpc' = "prompt"
                /\ fret' = fret
    /\ UNCHANGED <<mergeVars, envVars, syncVars, base_dir, fleet_template_data, awspolly_dirs,
                   awspolly_num_missing_files, awspolly_num_missing_chars, dir_i>>

\* variant: the run goes on whatever the operator answers
Proceeds_Always(answer) == TRUE

\* input(prompt).strip().lower() == "y"
Proceeds(answer) == answer = "y"

\* variant: the operator is asked even when nothing is missing
MustConfirm_Always(ttsm_n, awspolly_n) == TRUE

\* "if ttsm_num_missing_files > 0 or awspolly_num_missing_files > 0"
MustConfirm(ttsm_n, awspolly_n) == ttsm_n > 0 \/ awspolly_n > 0

\* the two log lines and the "Proceed? (y/n)" prompt
F_Prompt ==
    /\ fpc = "prompt"
    /\ IF MustConfirm(ttsm_num_missing_files, awspolly_num_missing_files)
       THEN \E answer \in {"y", "n"} :
            /\ events' = Append(events, [ev |-> "prompt", who |-> answer])
            /\ IF Proceeds(answer)
               THEN fpc' = "awspolly_loop" /\ fret' = fret
               ELSE FleetReturn(0)
       ELSE /\ events' = events
            /\ FleetReturn(0)
    /\ dir_i' = 1
    /\ UNCHANGED <<mergeVars, envVars, syncVars, base_dir, fleet_template_data, awspolly_dirs,
                   awspolly_num_missing_files, awspolly_num_missing_chars, ttsm_dirs,
                   ttsm_num_missing_files, ttsm_num_missing_chars>>

\* one pass of "for soundpack_dir in awspolly_dirs" up to the synchronizer call
F_DriveAwspolly ==
    /\ fpc = "awspolly_loop"
    /\ IF awspolly_num_missing_files > 0 /\ dir_i <= Len(awspolly_dirs)
       THEN IF HasSounds(awspolly_dirs[dir_i])
            THEN /\ SyncLocals("start", "awspolly", awspolly_dirs[dir_i])
                 /\ events' = Append(events, SyncCall("awspolly", awspolly_dirs[dir_i]))
                 /\ fpc' = "awspolly_sync"
                 /\ dir_i' = dir_i
            ELSE /\ dir_i' = dir_i + 1
                 /\ UNCHANGED <<syncVars, events, fpc>>
       ELSE /\ fpc' = "ttsm_loop"
            /\ dir_i' = 1
            /\ UNCHANGED <<syncVars, events>>
    /\ UNCHANGED <<mergeVars, envVars, base_dir, fleet_template_data, awspolly_dirs,
                   awspolly_num_missing_files, awspolly_num_missing_chars, ttsm_dirs,
                   ttsm_num_missing_files, ttsm_num_missing_chars, fret>>

\* one pass of "for soundpack_dir in ttsm_dirs" up to the synchronizer call, and
\* the final "return 0"
F_DriveTtsm ==
    /\ fpc = "ttsm_loop"
    /\ IF ttsm_num_missing_files > 0 /\ dir_i <= Len(ttsm_dirs)
       THEN IF HasSounds(ttsm_dirs[dir_i])
            THEN /\ SyncLocals("start", "ttsm", ttsm_dirs[dir_i])
                 /\ events' = Append(events, SyncCall("ttsm", ttsm_dirs[dir_i]))
                 /\ fpc' = "ttsm_sync"
                 /\ UNCHANGED <<dir_i, fret>>
            ELSE /\ dir_i' = dir_i + 1
                 /\ UNCHANGED <<syncVars, events, fpc, fret>>
       ELSE /\ FleetReturn(0)
            /\ UNCHANGED <<syncVars, events, dir_i>>
    /\ UNCHANGED <<mergeVars, envVars, base_dir, fleet_template_data, awspolly_dirs,
                   awspolly_num_missing_files, awspolly_num_missing_chars, ttsm_dirs,
                   ttsm_num_missing_files, ttsm_num_missing_chars>>

\* the synchronizer returned: "if retcode != 0: logger.error(...)", next directory
F_Return ==
    /\ fpc \in {"awspolly_sync", "ttsm_sync"}
    /\ pc = "returned"
    /\ events' = Append(events, [ev |-> IF ret = 0 THEN "ok" ELSE "error", who |-> output_dir])
    /\ fpc' = (IF fpc = "awspolly_sync" THEN "awspolly_loop" ELSE "ttsm_loop")
    /\ dir_i' = dir_i + 1
    /\ SyncLocals("idle", provider, output_dir)
    /\ UNCHANGED <<mergeVars, envVars, base_dir, fleet_template_data, awspolly_dirs,
                   awspolly_num_missing_files, awspolly_num_missing_chars, ttsm_dirs,
                   ttsm_num_missing_files, ttsm_num_missing_chars, fret>>

\* the synchronizer raised: no try/except surrounds the call, the exception
\* leaves update_all_soundpacks
F_Propagate ==
    /\ fpc \in {"awspolly_sync", "ttsm_sync"}
    /\ pc = "raised"
    /\ events' = Append(events, [ev |-> "exception", who |-> output_dir])
    /\ fpc' = "raised"
    /\ SyncLocals("idle", provider, output_dir)
    /\ UNCHANGED <<mergeVars, envVars, base_dir, fleet_template_data, awspolly_dirs,
                   awspolly_num_missing_files, awspolly_num_missing_chars, ttsm_dirs,
                   ttsm_num_missing_files, ttsm_num_missing_chars, dir_i, fret>>

FleetNext ==
    \/ F_Load
    \/ F_CountAwspolly
    \/ F_CountTtsm
    \/ F_Prompt
    \/ F_DriveAwspolly
    \/ F_DriveTtsm
    \/ F_Return
    \/ F_Propagate

\* what a pack directory holds at the start: it does not exist, has no 'sounds',
\* has an empty 'sounds', has only a/x.mp3, or has every file
Shapes == {"none", "nosounds", "empty", "partial", "full"}

InitFleet ==
    /\ template_file \in
          {[kind |-> k, data |-> <<>>] : k \in {"missing", "malformed", "undecodable"}}
              \cup {[kind |-> "ok", data |-> m] : m \in FleetManifests}
    /\ \E shape \in [DirNames -> Shapes] :
        /\ base_dir = {d \in DirNames : shape[d] # "none"}
        /\ sounds = [d \in DirNames |-> shape[d] \in {"empty", "partial", "full"}]
        /\ files = [d \in DirNames |->
                       [p \in Paths |->
                           IF shape[d] = "full" \/ (shape[d] = "partial" /\ p = "a/x.mp3")
                           THEN "pre" ELSE "absent"]]
    /\ tempfiles = 0
    /\ provider = "awspolly"
    /\ output_dir = PollyBrian
    /\ quality_checks = FALSE
    /\ template_data = <<>>
    /\ idx = 1
    /\ pc = "idle"
    /\ created_count = 0
    /\ skipped_count = 0
    /\ ret = -1
    /\ max_volume = 0
    /\ out_size = 0
    /\ volume_filter = NoFilter
    /\ atempo = FALSE
    /\ calls = <<>>
    /\ backend = [i \in 1..MaxLen |-> Unknown]
    /\ outcome = [i \in 1..MaxLen |-> "unvisited"]
    /\ files0 = files[output_dir]
    /\ run = 1
    /\ prev_ret = -1
    /\ fpc = "start"
    /\ fleet_template_data = <<>>
    /\ awspolly_dirs = <<>>
    /\ awspolly_num_missing_files = 0
    /\ awspolly_num_missing_chars = 0
    /\ ttsm_dirs = <<>>
    /\ ttsm_num_missing_files = 0
    /\ ttsm_num_missing_chars = 0
    /\ dir_i = 1
    /\ fret = -1
    /\ events = <<>>
    /\ template = <<>>
    /\ walk = <<>>
    /\ mpc = "off"
    /\ mret = -1
    /\ template0 = <<>>
    /\ walk0 = <<>>

\* Someone saves another manifest to the template file while
\* update_all_soundpacks runs, after the confirmation and before the first
\* synchronizer opens the file: every entry is replaced by another one.
EditedManifest(data) ==
    [k \in DOMAIN data |->
        CHOOSE e \in Entries :
            e.path = (IF data[k].path = "b/z.mp3" THEN "a/x.mp3" ELSE "b/z.mp3")]

EditTemplate ==
    /\ fpc = "awspolly_loop"
    /\ dir_i = 1
    /\ template_file.kind = "ok"
    /\ template_file.data # <<>>
    /\ \A k \in 1..Len(events) : events[k].ev # "edit"
    /\ template_file' = [template_file EXCEPT !.data = EditedManifest(@)]
    /\ events' = Append(events, [ev |-> "edit", who |-> "operator"])
    /\ UNCHANGED <<sounds, files, tempfiles, syncVars, mergeVars>>
    /\ UNCHANGED <<base_dir, fpc, fleet_template_data, awspolly_dirs,
                   awspolly_num_missing_files, awspolly_num_missing_chars, ttsm_dirs,
                   ttsm_num_missing_files, ttsm_num_missing_chars, dir_i, fret>>

FleetStep ==
    \/ FleetNext
    \/ SyncNext
    \/ EditTemplate

FleetSpec == InitFleet /\ [][FleetStep]_vars


\* A synchronizer run from its own command line, or update_all_soundpacks
InitPack == InitSync \/ InitFleet

PackNext ==
    \/ FleetStep
    \/ Rerun

PackSpec == InitPack /\ [][PackNext]_vars

----------------------------------------------------------------------------
(* The manifest bootstrap: createttstemplate.main *)

\* os.sep of the platform the program runs on
Separators == {"/", "\\"}

\* The files os.walk can yield below the 'sounds' directory: three .mp3 files
\* in subdirectories, a file that is not an .mp3 and a file under 'voicelines'.
WalkFiles ==
    {[dir |-> "a", filename |-> "x.mp3"],
     [dir |-> "a", filename |-> "y.mp3"],
     [dir |-> "b", filename |-> "z.mp3"],
     [dir |-> "a", filename |-> "notes.txt"],
     [dir |-> "voicelines", filename |-> "v.mp3"]}

\* A path string lead + dir + sep + filename, e.g. "/a/x.mp3", "\a\x.mp3".
\* The paths of a template written with forward slashes and no leading one.
CanonicalPath(f) == [lead |-> "", dir |-> f.dir, sep |-> "/", filename |-> f.filename]

\* os.path.join(root.split("sounds")[1], filename): root is <top>/sounds<sep><dir>
JoinedPath(sep, f) == [lead |-> sep, dir |-> f.dir, sep |-> sep, filename |-> f.filename]

\* entry_path: the joined path, .removeprefix("/")
EntryPath(sep, f) ==
    LET joined == JoinedPath(sep, f)
    IN  IF joined.lead = "/" THEN [joined EXCEPT !.lead = ""] ELSE joined

\* filename.endswith(".mp3")
EndsWithMp3(filename) == filename \in {"x.mp3", "y.mp3", "z.mp3", "v.mp3"}

\* "voicelines" in root
InVoicelines(f) == f.dir = "voicelines"

\* filename.removesuffix(".mp3"); none of the text heuristics applies to these
DefaultTtsText(filename) ==
    CASE filename = "x.mp3" -> "x"
      [] filename = "y.mp3" -> "y"
      [] filename = "z.mp3" -> "z"
      [] OTHER -> "v"

\* the entry created for a new file; one short word gets no ssml_text
NewEntry(entry_path, filename) ==
    [path |-> entry_path, tts_text |-> DefaultTtsText(filename), ssml_text |-> ""]

\* an entry of an existing template, its texts edited by hand
OldEntry(f) ==
    [path |-> CanonicalPath(f), tts_text |-> "hand edited", ssml_text |-> "<emphasis>"]

\* any(entry["path"] == entry_path for entry in template)
HasPath(list, entry_path) == \E k \in 1..Len(list) : list[k].path = entry_path

\* list.insert(i, e) for i >= 0: before the element at 0-based index i, at the
\* end when i >= len(list)
Insert(list, i, e) ==
    IF i >= Len(list) THEN Append(list, e)
    ELSE SubSeq(list, 1, i) \o <<e>> \o SubSeq(list, i + 1, Len(list))

\* variant: an entry found in the template is not counted
CountSkipped_Never(n) == n

\* skipped_count += 1
CountSkipped(n) == n + 1

\* sequences without repetition, of length up to n, of elements of S
DistinctSeqs(S, n) == {q \in SeqsUpTo(S, n) : \A i, j \in 1..Len(q) : q[i] = q[j] => i = j}

\* existing templates; a template edited by hand may name a path twice
OldTemplates == {[k \in 1..Len(q) |-> OldEntry(q[k])] :
                    q \in SeqsUpTo({f \in WalkFiles : EndsWithMp3(f.filename) /\ ~InVoicelines(f)},
                                   MergeMaxOld)}

\* what os.walk yields on a platform: distinct files, in any order
Walks == {[k \in 1..Len(q) |-> [sep |-> sep, file |-> q[k]]] :
             sep \in Separators, q \in DistinctSeqs(WalkFiles, MergeMaxWalk)}

OthersUnchangedByMerge ==
    UNCHANGED <<sounds, files, tempfiles, syncVars, fleetVars>>

\* the directory check, os.path.isfile(args.file) and json.load
M_Load ==
    /\ mpc = "start"
    /\ \E directory_exists \in BOOLEAN :
        IF ~directory_exists \/ template_file.kind \in {"malformed", "undecodable"}
        THEN /\ mpc' = "returned"
             /\ mret' = 1
             /\ UNCHANGED <<template, template0>>
        ELSE /\ template' = (IF template_file.kind = "ok" THEN template_file.data ELSE <<>>)
             /\ template0' = template'
             /\ mpc' = "walk"
             /\ mret' = mret
    /\ created_count' = 0
    /\ skipped_count' = 0
    /\ UNCHANGED <<template_file, walk, walk0>>
    /\ UNCHANGED <<sounds, files, tempfiles, provider, output_dir, quality_checks,
                   template_data, idx, pc, ret, max_volume, out_size, volume_filter,
                   atempo, calls, backend, outcome, files0, run, prev_ret, fleetVars>>

\* one pass of "for filename in files" of the os.walk loop
M_Visit ==
    /\ mpc = "walk"
    /\ walk # <<>>
    /\ walk' = Tail(walk)
    /\ LET f == Head(walk).file
           entry_path == EntryPath(Head(walk).sep, f)
       IN  IF ~EndsWithMp3(f.filename) \/ InVoicelines(f)
           THEN UNCHANGED <<template, created_count, skipped_count>>
           ELSE IF HasPath(template, entry_path)
           THEN /\ skipped_count' = CountSkipped(skipped_count)
                /\ UNCHANGED <<template, created_count>>
           ELSE /\ template' = Insert(template, created_count + skipped_count + 1,
                                      NewEntry(entry_path, f.filename))
                /\ created_count' = created_count + 1
                /\ skipped_count' = skipped_count
    /\ UNCHANGED <<template_file, mpc, mret, template0, walk0>>
    /\ UNCHANGED <<sounds, files, tempfiles, provider, output_dir, quality_checks,
                   template_data, idx, pc, ret, max_volume, out_size, volume_filter,
                   atempo, calls, backend, outcome, files0, run, prev_ret, fleetVars>>

\* json.dumps and the write of args.file: it succeeds, open() fails and leaves
\* the file as it was, or f.write fails and leaves a truncated file
M_Write ==
    /\ mpc = "walk"
    /\ walk = <<>>
    /\ \E result \in {"ok", "open_failed", "write_failed"} :
        /\ template_file' = CASE result = "ok" -> [kind |-> "ok", data |-> template]
                              [] result = "open_failed" -> template_file
                              [] OTHER -> [kind |-> "malformed", data |-> <<>>]
        /\ mret' = (IF result = "ok" THEN 0 ELSE 1)
    /\ mpc' = "returned"
    /\ UNCHANGED <<template, walk, template0, walk0>>
    /\ OthersUnchangedByMerge

MergeNext ==
    \/ M_Load
    \/ M_Visit
    \/ M_Write

InitMerge ==
    /\ template_file \in
          {[kind |-> k, data |-> <<>>] : k \in {"missing", "malformed", "undecodable"}}
              \cup {[kind |-> "ok", data |-> m] : m \in OldTemplates}
    /\ walk \in Walks
    /\ walk0 = walk
    /\ template = <<>>
    /\ template0 = <<>>
    /\ mpc = "start"
    /\ mret = -1
    /\ sounds = [d \in DirNames |-> TRUE]
    /\ files = [d \in DirNames |-> [q \in Paths |-> "absent"]]
    /\ tempfiles = 0
    /\ provider = "awspolly"
    /\ output_dir = PollyBrian
    /\ quality_checks = FALSE
    /\ template_data = <<>>
    /\ idx = 1
    /\ pc = "idle"
    /\ created_count = 0
    /\ skipped_count = 0
    /\ ret = -1
    /\ max_volume = 0
    /\ out_size = 0
    /\ volume_filter = NoFilter
    /\ atempo = FALSE
    /\ calls = <<>>
    /\ backend = [i \in 1..MaxLen |-> Unknown]
    /\ outcome = [i \in 1..MaxLen |-> "unvisited"]
    /\ files0 = files[output_dir]
    /\ run = 1
    /\ prev_ret = -1
    /\ base_dir = {}
    /\ fpc = "off"
    /\ fleet_template_data = <<>>
    /\ awspolly_dirs = <<>>
    /\ awspolly_num_missing_files = 0
    /\ awspolly_num_missing_chars = 0
    /\ ttsm_dirs = <<>>
    /\ ttsm_num_missing_files = 0
    /\ ttsm_num_missing_chars = 0
    /\ dir_i = 1
    /\ fret = -1
    /\ events = <<>>

MergeSpec == InitMerge /\ [][MergeNext]_vars

----------------------------------------------------------------------------
(* Properties of the synchronizers *)

N == Len(template_data)

Ended == pc \in {"returned", "raised"}

PathOf(i) == template_data[i].path

\* the manifest entries whose target file existed / did not exist at the start
PresentAtStart == {i \in 1..N : files0[PathOf(i)] # "absent"}
AbsentAtStart == {i \in 1..N : files0[PathOf(i)] = "absent"}

UniquePaths == \A i, j \in 1..N : PathOf(i) = PathOf(j) => i = j

\* the pack and the template are valid, so the run reaches the loop
ValidSetup == template_file.kind = "ok" /\ sounds[output_dir]

\* the ceiling of the quality gate as the specification states it
ClaimedCeiling(n) == IF n > 9 THEN 2048 * n ELSE 3072 * n

\* C1 (as stated): after a run that returned 0, a second run on the same
\* directory and manifest, the backend answering as before, creates no file,
\* leaves the directory as it was and counts every manifest entry as skipped.
C1_SecondRunSkipsAll ==
    (run >= 2 /\ prev_ret = 0 /\ Ended)
        => /\ pc = "returned" /\ ret = 0
           /\ created_count = 0
           /\ files[output_dir] = files0
           /\ skipped_count = N

\* C1 (amended): after a run that returned 0, a second run returns 0, creates
\* no file, leaves the directory as the first run left it, and counts as
\* skipped exactly the entries whose file exists after the first run; entries
\* the first run skipped on a transient error or invalid SSML, or rejected at
\* the quality gate, are attempted again and are not counted.
C1_SecondRunFillsNothing ==
    (run >= 2 /\ prev_ret = 0 /\ Ended)
        => /\ pc = "returned" /\ ret = 0
           /\ created_count = 0
           /\ files[output_dir] = files0
           /\ skipped_count = Cardinality(PresentAtStart)
           /\ \A k \in 1..Len(calls) : calls[k].i \in AbsentAtStart

C1_Witness ==
    /\ run = 2 /\ prev_ret = 0 /\ pc = "returned" /\ ret = 0
    /\ N = 2
    /\ skipped_count = 1
    /\ \E i \in 1..N : outcome[i] = "skipped" /\ files0[PathOf(i)] = "new"

\* C2: when the target file of an entry exists as the entry is visited, the
\* provider is not called for it and no file is written, replaced or deleted;
\* the entry is counted as skipped and the loop moves on.
C2_ExistingFileUntouched ==
    [][(pc = "loop" /\ idx <= N /\ files[output_dir][PathOf(idx)] # "absent")
          => /\ calls' = calls
             /\ files' = files
             /\ tempfiles' = tempfiles
             /\ skipped_count' = skipped_count + 1
             /\ idx' = idx + 1
             /\ pc' = "loop"]_vars

C2_Witness ==
    \E i, j \in 1..N :
        /\ outcome[i] = "skipped" /\ files0[PathOf(i)] = "pre"
        /\ files[output_dir][PathOf(i)] = "pre"
        /\ outcome[j] = "created"

\* every provider call and every audio step of the run succeeded and no file
\* was rejected
NoFailure ==
    /\ \A i \in 1..N : outcome[i] # "rejected"
    /\ \A i \in 1..MaxLen :
        /\ backend[i].answer \in {"?", "ok"}
        /\ backend[i].stage \in {"?", "ok"}
        /\ backend[i].analysis \in {"?", "ok"}
        /\ backend[i].encode \in {"?", "ok"}

\* C3: for a manifest with unique paths and a run without failure or
\* rejection, the pass returns 0, skipped_count is the number of entries whose
\* file existed at the start, created_count the number whose file did not,
\* they add up to the manifest length, and the provider is called exactly once
\* for each absent entry and never for a present one.
C3_EndToEndTally ==
    (Ended /\ ValidSetup /\ UniquePaths /\ NoFailure)
        => /\ pc = "returned" /\ ret = 0
           /\ skipped_count = Cardinality(PresentAtStart)
           /\ created_count = Cardinality(AbsentAtStart)
           /\ created_count + skipped_count = N
           /\ Len(calls) = Cardinality(AbsentAtStart)
           /\ \A i \in AbsentAtStart : \E k \in 1..Len(calls) : calls[k].i = i
           /\ \A k \in 1..Len(calls) : calls[k].i \in AbsentAtStart

\* the scenario of the specification: a/x.mp3 present, a/y.mp3 missing
C3_Witness ==
    /\ pc = "returned" /\ ret = 0 /\ run = 1 /\ NoFailure
    /\ N = 2 /\ PathOf(1) = "a/x.mp3" /\ PathOf(2) = "a/y.mp3"
    /\ files0["a/x.mp3"] = "pre" /\ files0["a/y.mp3"] = "absent"
    /\ skipped_count = 1 /\ created_count = 1
    /\ Len(calls) = 1 /\ calls[1].path = "a/y.mp3"

\* C4: with target margin m = -0.5 dB and measured peak p, no volume filter is
\* applied when p >= m, and when p < m the filter applies exactly m - p dB, so
\* the gain is never negative and the resulting peak p + gain is m; in both
\* synchronizers.
C4_GainMonotone ==
    pc = "encode"
        => LET p == max_volume
               m == -5
           IN  /\ p >= m => ~volume_filter.applied
               /\ p < m => /\ volume_filter.applied
                           /\ volume_filter.db = m - p
                           /\ volume_filter.db >= 0
                           /\ p + volume_filter.db = m

\* C5: with quality_checks enabled, a freshly generated file of size s for a
\* text of n characters is kept iff s <= 2048*n when n > 9 and iff
\* s <= 3072*n when n <= 9.
C5_QualityGateBoundary ==
    [][(pc = "gate" /\ quality_checks)
          => (files'[output_dir][PathOf(idx)] # "absent"
                 <=> out_size <= ClaimedCeiling(template_data[idx].tts_len))]_vars

\* a file of 2048*n + 1 bytes was rejected for a text with n > 9, and a file of
\* exactly 3072*n bytes was kept for n <= 9
C5_Witness ==
    \E i, j \in 1..N :
        /\ template_data[i].tts_len > 9
        /\ outcome[i] = "rejected"
        /\ backend[i].size = 2048 * template_data[i].tts_len + 1
        /\ template_data[j].tts_len <= 9
        /\ outcome[j] = "created"
        /\ quality_checks

\* a step of the quality gate that finds the fresh file above the ceiling
RejectionStep ==
    /\ pc = "gate"
    /\ quality_checks
    /\ out_size > ClaimedCeiling(template_data[idx].tts_len)

\* C6 (as stated): a rejected file no longer exists, the run goes on with the
\* next entry, neither created_count nor skipped_count is incremented, and the
\* rejection is counted in the run's tally.
C6_RejectionCounted ==
    [][RejectionStep
          => /\ files'[output_dir][PathOf(idx)] = "absent"
             /\ pc' = "loop" /\ idx' = idx + 1 /\ ret' = ret
             /\ created_count' = created_count
             /\ skipped_count' = skipped_count
             /\ RunTally' # RunTally]_vars

\* C6 (amended): a rejected file no longer exists, the run goes on with the
\* next entry, neither created_count nor skipped_count is incremented; no
\* counter records the rejection (it is logged only), so the tally is unchanged.
C6_RejectionOutcome ==
    [][RejectionStep
          => /\ files'[output_dir][PathOf(idx)] = "absent"
             /\ pc' = "loop" /\ idx' = idx + 1 /\ ret' = ret
             /\ created_count' = created_count
             /\ skipped_count' = skipped_count
             /\ RunTally' = RunTally]_vars

\* a run that rejected a file, went on to create a later one and returned 0
C6_Witness ==
    /\ pc = "returned" /\ ret = 0
    /\ \E i, j \in 1..N :
        /\ i < j
        /\ outcome[i] = "rejected" /\ files[output_dir][PathOf(i)] = "absent"
        /\ outcome[j] = "created"
    /\ created_count + skipped_count < N

\* the failures of a job that are not a transient backend error
HardFailures ==
    {"InvalidSsmlException", "BotoCoreError", "no_audio", "TTSMAPIError", "no_url",
     "stage_failed", "analysis_failed", "encode_failed"}

\* C8: a per-job failure other than a transient backend error aborts the
\* directory's synchronization: the function returns 1 and no entry after the
\* failing one is synthesized or written.
C8_HardFailureReturns1 ==
    \A i \in 1..N :
        outcome[i] \in HardFailures
            => /\ pc = "returned" /\ ret = 1
               /\ idx = i
               /\ \A j \in (i + 1)..N : outcome[j] = "unvisited"

\* a provider call of ttsm that ends in ConnectionError / ReadTimeout
TransientStep ==
    /\ pc = "synth"
    /\ provider = "ttsm"
    /\ backend'[idx].answer = "ConnectionError"

\* C9 (as stated): on a transient backend error the job alone is skipped, no
\* file is created, the loop continues, and the skip is counted separately
\* from created and from existing-file skipped.
C9_TransientCounted ==
    [][TransientStep
          => /\ files' = files
             /\ pc' = "loop" /\ idx' = idx + 1 /\ ret' = ret
             /\ created_count' = created_count
             /\ skipped_count' = skipped_count
             /\ RunTally' # RunTally]_vars

\* C9 (amended): in ttsfromtemplate_ttsmonster, on ConnectionError or
\* ReadTimeout from generate the job alone is skipped, no file is created, the
\* loop continues with the next entry, and no counter is incremented: the skip
\* is logged, not counted.
C9_TransientSkipsJob ==
    [][TransientStep
          => /\ files' = files
             /\ pc' = "loop" /\ idx' = idx + 1 /\ ret' = ret
             /\ created_count' = created_count
             /\ skipped_count' = skipped_count
             /\ RunTally' = RunTally]_vars

\* a transient error on one entry, and a later missing entry created
C9_Witness ==
    \E i, j \in 1..N :
        /\ i < j
        /\ provider = "ttsm"
        /\ outcome[i] = "ConnectionError"
        /\ files[output_dir][PathOf(i)] = "absent"
        /\ outcome[j] = "created"

\* C10: when the peak measurement or the transcoding of a job fails, no file
\* exists at the job's final path afterwards.
C10_NoPartialOutput ==
    \A i \in 1..N :
        outcome[i] \in {"analysis_failed", "encode_failed"}
            => files[output_dir][PathOf(i)] = "absent"

\* C11: the temporary file that stages the provider's audio for a job no longer
\* exists when the job ends, on every exit path, and none remains once the
\* synchronizer has returned.
C11_TempFileCleanup ==
    pc \in {"loop", "returned", "raised"} => tempfiles = 0


\* C22: the quality gate applies to files generated in the current run only:
\* no step of a synchronizer, with quality_checks enabled or disabled, deletes
\* or changes a file that existed at its target path when the run started; and
\* with quality_checks disabled no file that exists is ever deleted.
C22_GateSparesExistingFiles ==
    [][/\ \A p \in Paths :
             files0'[p] # "absent" => files'[output_dir'][p] = files0'[p]
       /\ ~quality_checks
             => \A p \in Paths :
                    files[output_dir][p] # "absent"
                        => files'[output_dir][p] = files[output_dir][p]]_vars

\* a run with the quality gate enabled that rejected a fresh file and left the
\* file that was there before as it was
C22_Witness ==
    /\ pc = "returned" /\ quality_checks
    /\ \E i, j \in 1..N :
        /\ outcome[i] = "skipped" /\ files0[PathOf(i)] = "pre"
        /\ files[output_dir][PathOf(i)] = "pre"
        /\ outcome[j] = "rejected" /\ files[output_dir][PathOf(j)] = "absent"

\* C24: for every missing entry, ttsfromtemplate_awspolly sends ssml_text
\* with text type 'ssml' iff ssml_text is non-empty and otherwise tts_text with
\* text type 'text'; ttsfromtemplate_ttsmonster always sends tts_text and puts
\* the tempo filter on the stream iff ssml_text contains rate='fast'.
C24_JobInputSelection ==
    /\ \A k \in 1..Len(calls) :
          LET markup == template_data[calls[k].i].ssml_text
          IN  /\ calls[k].path = template_data[calls[k].i].path
              /\ provider = "awspolly"
                    => /\ markup # "" => (calls[k].text = "ssml_text" /\ calls[k].texttype = "ssml")
                       /\ markup = "" => (calls[k].text = "tts_text" /\ calls[k].texttype = "text")
              /\ provider = "ttsm" => calls[k].text = "tts_text"
    /\ pc \in {"encode", "gate"}
          => (atempo <=> (provider = "ttsm"
                             /\ template_data[idx].ssml_text = "<prosody rate='fast'>"))

\* TTS.Monster was sent the plain text of an entry whose markup asks for the
\* fast rate and the tempo filter is on the stream, after an entry with other
\* markup
C24_Witness ==
    /\ provider = "ttsm" /\ pc = "encode" /\ idx = 2
    /\ template_data[1].ssml_text = "<emphasis>"
    /\ template_data[2].ssml_text = "<prosody rate='fast'>"
    /\ Len(calls) = 2
    /\ calls[2].text = "tts_text"
    /\ atempo

\* between two jobs: at the head of the loop, and after the loop
JobBoundary == pc = "loop" \/ (pc = "returned" /\ ret = 0)

\* the target paths that did not exist when the run started and hold a file now
FilledPaths ==
    {p \in Paths : files0[p] = "absent" /\ files[output_dir][p] # "absent"}

\* C27: at every job boundary created_count is the number of target paths
\* that did not exist when the run started and hold a file now, skipped_count
\* the number of visited entries found already present, and their sum does not
\* exceed the number of entries visited; each entry is visited at most once
\* and the provider is called at most once per entry per run.
C27_TallySoundness ==
    /\ JobBoundary
          => /\ created_count = Cardinality(FilledPaths)
             /\ skipped_count = Cardinality({i \in 1..N : outcome[i] = "skipped"})
             /\ created_count + skipped_count <= idx - 1
             /\ \A i \in 1..N : (outcome[i] # "unvisited") <=> i < idx
    /\ \A j, k \in 1..Len(calls) : j < k => calls[j].i < calls[k].i
    /\ \A k \in 1..Len(calls) : calls[k].i <= idx

\* a run over a manifest that names one path twice: created once, then found
\* present
C27_Witness ==
    /\ pc = "returned" /\ ret = 0
    /\ N = 2 /\ PathOf(1) = PathOf(2)
    /\ outcome[1] = "created" /\ outcome[2] = "skipped"
    /\ created_count = 1 /\ skipped_count = 1
    /\ Len(calls) = 1

----------------------------------------------------------------------------
(* Properties of the Fleet Orchestrator *)

FleetEnded == fpc \in {"returned", "raised"}

\* the operator answered the prompt with 'y'
Confirmed == \E k \in 1..Len(events) : events[k].ev = "prompt" /\ events[k].who = "y"

\* pack directory d was passed to its synchronizer
Synced(d) == \E k \in 1..Len(events) : events[k].ev = "sync" /\ events[k].who = d

\* the valid pack directories of the provider groups that have missing files
ToSync ==
    {d \in base_dir :
        /\ sounds[d]
        /\ \/ MatchesPrefix(d, "awspolly") /\ awspolly_num_missing_files > 0
           \/ MatchesPrefix(d, "ttsm") /\ ttsm_num_missing_files > 0}

\* C7: after the operator's confirmation, no failure while synchronizing one
\* pack directory prevents the others from being synchronized: when
\* update_all_soundpacks has ended, every valid directory of a group with
\* missing files was passed to its synchronizer.
C7_FleetFailureIsolation ==
    (FleetEnded /\ Confirmed) => \A d \in ToSync : Synced(d)

\* the operator answered the prompt with something else than 'y'
Declined == \E k \in 1..Len(events) : events[k].ev = "prompt" /\ events[k].who # "y"

\* a provider's client was created (and, for TTS.Monster, its usage queried)
ClientCreated(who) == \E k \in 1..Len(events) : events[k].ev = "client" /\ events[k].who = who

\* C12 (as stated): when a provider group has missing files, no call to a
\* provider backend (client initialisation, usage query, synthesis, audio
\* retrieval) happens before the operator has answered 'y'; after any other
\* answer no provider call was ever made, no file was created or deleted and
\* the function has returned.
C12_NoCallBeforeConfirm ==
    /\ \A k \in 1..Len(events) :
          events[k].ev \in {"client", "sync"}
              => \E j \in 1..(k - 1) : events[j].ev = "prompt" /\ events[j].who = "y"
    /\ Declined => /\ fpc = "returned"
                   /\ \A k \in 1..Len(events) : events[k].ev \notin {"client", "sync"}
                   /\ calls = <<>>

\* C12 (amended): the client of each provider group with missing files is
\* created (and the TTS.Monster usage read) before the prompt; no synchronizer
\* is invoked, no synthesis or audio retrieval is made and no file or temporary
\* file is created or deleted before the operator has answered 'y'; after any
\* other answer the function returns 0 and none of these ever happens.
C12_NoSynthesisBeforeConfirm ==
    [][/\ ~Confirmed' => /\ files' = files
                         /\ tempfiles' = tempfiles
                         /\ calls' = <<>>
                         /\ pc' = "idle"
                         /\ ~\E d \in DirNames : Synced(d)'
       /\ fpc' = "prompt" => /\ awspolly_num_missing_files' > 0 <=> ClientCreated("awspolly")'
                             /\ ttsm_num_missing_files' > 0 <=> ClientCreated("ttsm")'
       /\ Declined' => /\ fpc' = "returned"
                       /\ fret' = 0]_vars

\* both clients were created, then the operator answered 'n'
C12_Witness ==
    /\ fpc = "returned" /\ fret = 0
    /\ Len(events) = 3
    /\ events[1] = [ev |-> "client", who |-> "awspolly"]
    /\ events[2] = [ev |-> "client", who |-> "ttsm"]
    /\ events[3] = [ev |-> "prompt", who |-> "n"]

\* how many times the operator was prompted
PromptCount == Cardinality({k \in 1..Len(events) : events[k].ev = "prompt"})

\* the missing files of all pack directories of both provider groups, counted
\* on the file system against the manifest in the template file
AggregateMissing ==
    Cardinality({di \in base_dir \X (1..Len(template_file.data)) :
                    /\ MatchesPrefix(di[1], "awspolly") \/ MatchesPrefix(di[1], "ttsm")
                    /\ files[di[1]][template_file.data[di[2]].path] = "absent"})

\* C13: the operator is prompted at most once per run and only when the
\* aggregate missing-file count over both provider groups is nonzero; when it
\* is zero the run returns 0 without a prompt and without invoking any
\* synchronizer or provider.
C13_PromptCondition ==
    [][/\ PromptCount' <= 1
       /\ fpc = "prompt"
            => /\ awspolly_num_missing_files + ttsm_num_missing_files = AggregateMissing
               /\ PromptCount' = 1 <=> AggregateMissing > 0
               /\ AggregateMissing = 0
                    => /\ fpc' = "returned" /\ fret' = 0
                       /\ events' = <<>> /\ calls' = <<>> /\ pc' = "idle"
                       /\ files' = files]_vars

\* a run over two pack directories that miss nothing: no prompt, return 0
C13_Witness ==
    /\ fpc = "returned" /\ fret = 0
    /\ events = <<>>
    /\ Len(fleet_template_data) = 1
    /\ Len(awspolly_dirs) = 1 /\ Len(ttsm_dirs) >= 1
    /\ AggregateMissing = 0

\* the positions in events of the synchronizer calls for pack directory d
SyncCalls(d) == {k \in 1..Len(events) : events[k].ev = "sync" /\ events[k].who = d}

\* the pack directories update_all_soundpacks discovers
Discovered == {d \in base_dir : MatchesPrefix(d, "awspolly") \/ MatchesPrefix(d, "ttsm")}

\* every synchronizer call so far was made in provider-group order, with the
\* provider named by the directory's prefix and the voice of its name
CallsWellFormed ==
    /\ \A k \in 1..Len(events) :
          events[k].ev = "sync"
              => /\ events[k].prov = Lower(events[k].who.service)
                 /\ events[k].voice = events[k].who.voice
    /\ \A j, k \in 1..Len(events) :
          (events[j].ev = "sync" /\ events[k].ev = "sync" /\ j < k)
              => ~(events[j].prov = "ttsm" /\ events[k].prov = "awspolly")

\* C14 (as stated): after confirmation the synchronizer is invoked exactly once
\* for each discovered pack directory, awspolly directories before ttsm
\* directories, each with the provider of its prefix and the voice of its name.
C14_OncePerDiscoveredDir ==
    /\ CallsWellFormed
    /\ (FleetEnded /\ Confirmed) => \A d \in Discovered : Cardinality(SyncCalls(d)) = 1

\* C14 (amended): a synchronizer is invoked at most once per pack directory and
\* only for directories that have a 'sounds' subdirectory and belong to a
\* provider group with a nonzero missing-file count, awspolly directories
\* before ttsm directories, each with the provider of its prefix and the voice
\* of its name; when update_all_soundpacks returns after confirmation each of
\* these directories was invoked exactly once, and when a synchronizer raised
\* an exception the directories after it were not invoked.
C14_DriveOrder ==
    /\ CallsWellFormed
    /\ \A d \in DirNames : Cardinality(SyncCalls(d)) <= 1
    /\ \A d \in DirNames : SyncCalls(d) # {} => (Confirmed /\ d \in ToSync)
    /\ (fpc = "returned" /\ Confirmed) => \A d \in ToSync : Cardinality(SyncCalls(d)) = 1
    /\ fpc = "raised" /\ Confirmed
          => /\ events[Len(events)].ev = "exception"
             /\ SyncCalls(events[Len(events)].who) = {Len(events) - 1}

\* three pack directories synchronized, the awspolly one first; a fourth
\* case, a group without missing files, is the run where only ttsm is driven
C14_Witness ==
    /\ fpc = "returned" /\ Confirmed
    /\ Cardinality(ToSync) = 3
    /\ \E k \in SyncCalls(PollyBrian) : \A d \in {TtsmAlpha, TtsmBeta} : \A j \in SyncCalls(d) : k < j
    /\ \A d \in DirNames : Cardinality(SyncCalls(d)) = 1

\* the credentials or the client creation of provider group who failed
AuthFailed(who) == \E k \in 1..Len(events) : events[k].ev = "auth_failed" /\ events[k].who = who

OtherGroup(who) == IF who = "awspolly" THEN "ttsm" ELSE "awspolly"

\* the pack directories of provider group who that have a 'sounds' subdirectory
\* and miss a file of the manifest
NeedsWork(who) ==
    {d \in base_dir : /\ MatchesPrefix(d, who)
                      /\ sounds[d]
                      /\ MissingIn(d, fleet_template_data) # {}}

SyncLoaded == fpc \in {"awspolly_sync", "ttsm_sync"} /\ pc \notin {"idle", "start"}

ParseError == template_file.kind \in {"malformed", "undecodable"}

\* no provider was called and no file was created, modified or deleted
NothingDone ==
    /\ events = <<>>
    /\ calls = <<>>
    /\ tempfiles = 0
    /\ \A d \in DirNames, q \in Paths : files[d][q] \in {"absent", "pre"}

\* C20: when the template file holds malformed JSON or undecodable bytes,
\* update_all_soundpacks and both synchronizers return 1 before any provider
\* call and any prompt, without creating, modifying or deleting a file.
C20_ParseErrorReturns1 ==
    /\ (ParseError /\ fpc \notin {"off", "start"})
          => (fpc = "returned" /\ fret = 1 /\ NothingDone /\ pc = "idle")
    /\ (ParseError /\ fpc = "off" /\ mpc = "off" /\ pc # "start")
          => (pc = "returned" /\ ret = 1 /\ NothingDone)

\* a synchronizer invoked by update_all_soundpacks returned a nonzero code
SomeSyncFailed == \E k \in 1..Len(events) : events[k].ev = "error"

\* C21: update_all_soundpacks returns 0 on success and 1 on error: whenever
\* the synchronization of at least one pack directory returned a nonzero code
\* during the run, update_all_soundpacks itself returns 1.
C21_ReturnCodeContract ==
    (FleetEnded /\ SomeSyncFailed) => (fpc = "returned" /\ fret = 1)

\* pack directory d has no 'sounds' subdirectory
Invalid(d) == ~sounds[d]

DirsWithPrefix(prefix) ==
    {d \in base_dir : \/ prefix = "awspolly" /\ d = PollyBrian
                      \/ prefix = "ttsm" /\ d \in {TtsmAlpha, TtsmBeta}}

\* the (directory, manifest entry) pairs whose file <dir>/sounds/<path> does
\* not exist
MissingPairs(prefix) ==
    {di \in DirsWithPrefix(prefix) \X (1..Len(fleet_template_data)) :
        files[di[1]][fleet_template_data[di[2]].path] = "absent"}

RECURSIVE CharsOf(_)
\* the sum of len(tts_text) over a set of (directory, manifest entry) pairs
CharsOf(pairs) ==
    IF pairs = {} THEN 0
    ELSE LET di == CHOOSE x \in pairs : TRUE
         IN  fleet_template_data[di[2]].tts_len + CharsOf(pairs \ {di})

\* the elements of a list
Range(list) == {list[k] : k \in 1..Len(list)}

\* C25: _count_missing_for_service returns exactly the directories under
\* base_dir whose lower-cased name starts with the prefix, the number of
\* (directory, manifest entry) pairs whose file does not exist and the sum of
\* len(tts_text) over these pairs; it creates, modifies and deletes nothing and
\* makes no synthesis call.
C25_CountMissing ==
    [][/\ fpc = "count_awspolly"
             => /\ Range(awspolly_dirs') = DirsWithPrefix("awspolly")
                /\ Len(awspolly_dirs') = Cardinality(DirsWithPrefix("awspolly"))
                /\ awspolly_num_missing_files' = Cardinality(MissingPairs("awspolly"))
                /\ awspolly_num_missing_chars' = CharsOf(MissingPairs("awspolly"))
                /\ files' = files /\ tempfiles' = tempfiles /\ calls' = <<>>
                /\ template_file' = template_file
       /\ fpc = "count_ttsm"
             => /\ Range(ttsm_dirs') = DirsWithPrefix("ttsm")
                /\ Len(ttsm_dirs') = Cardinality(DirsWithPrefix("ttsm"))
                /\ ttsm_num_missing_files' = Cardinality(MissingPairs("ttsm"))
                /\ ttsm_num_missing_chars' = CharsOf(MissingPairs("ttsm"))
                /\ files' = files /\ tempfiles' = tempfiles /\ calls' = <<>>
                /\ template_file' = template_file]_vars

\* both ttsm directories counted, "TTSM-Beta" included; one of them misses the
\* file of the manifest's entry
C25_Witness ==
    /\ fpc = "prompt"
    /\ Range(ttsm_dirs) = {TtsmAlpha, TtsmBeta}
    /\ Len(fleet_template_data) = 1
    /\ ttsm_num_missing_files = 1
    /\ ttsm_num_missing_chars = fleet_template_data[1].tts_len
    /\ awspolly_num_missing_files = 0

\* the missing files of the pack directories that update_all_soundpacks will
\* synchronize after the confirmation: those with a 'sounds' subdirectory
WorkToDo ==
    {di \in MissingPairs("awspolly") \cup MissingPairs("ttsm") : sounds[di[1]]}

\* C26: the aggregate missing-file count shown to the operator before the
\* prompt is the number of synthesis jobs the synchronizers start after the
\* confirmation when no job fails: a directory contributes to the count, and
\* can trigger the prompt, only if it is a valid pack directory that will be
\* synchronized.
C26_EstimateMatchesWork ==
    fpc = "prompt"
        => awspolly_num_missing_files + ttsm_num_missing_files = Cardinality(WorkToDo)

----------------------------------------------------------------------------
(* Properties of the manifest bootstrap *)

\* every file of the walk has been visited
MergeDone == mpc \in {"walk", "returned"} /\ walk = <<>>

\* the positions in the walk of the discovered entries: the .mp3 files outside
\* 'voicelines'
DiscoveredAt ==
    {k \in 1..Len(walk0) : EndsWithMp3(walk0[k].file.filename) /\ ~InVoicelines(walk0[k].file)}

\* the entry path the program computes for the k-th file of the walk
WalkPath(k) == EntryPath(walk0[k].sep, walk0[k].file)

\* the discovered entries whose path is not in the existing template
NovelAt == {k \in DiscoveredAt : ~HasPath(template0, WalkPath(k))}

\* the existing template is a manifest: no two of its entries share a path
OldPathsUnique ==
    \A i, j \in 1..Len(template0) : template0[i].path = template0[j].path => i = j

\* C16: for an existing manifest A (paths unique), the merged template contains every existing entry with its three
\* fields unchanged and every discovered entry whose path is not in the
\* existing template, no path occurs twice, its length is len(A) plus the
\* number of novel discovered entries, and skipped_count is the number of
\* discovered entries that were dropped.
C16_MergeInvariant ==
    (MergeDone /\ OldPathsUnique)
        => /\ \A i \in 1..Len(template0) : \E j \in 1..Len(template) : template[j] = template0[i]
           /\ \A k \in NovelAt : HasPath(template, WalkPath(k))
           /\ \A i, j \in 1..Len(template) : template[i].path = template[j].path => i = j
           /\ Len(template) = Len(template0) + Cardinality(NovelAt)
           /\ created_count = Cardinality(NovelAt)
           /\ skipped_count = Cardinality(DiscoveredAt \ NovelAt)
           /\ mret = 0 => template_file = [kind |-> "ok", data |-> template]

\* a template of two entries merged with a walk that finds one of them again
\* and one new file, then written
C16_Witness ==
    /\ mpc = "returned" /\ mret = 0
    /\ Len(template0) = 2 /\ OldPathsUnique
    /\ Cardinality(NovelAt) = 1
    /\ skipped_count = 1
    /\ Len(template_file.data) = 3

RECURSIVE NovelEntries(_)
\* the entries created for the novel files among the first n of the walk, in
\* the order of the walk
NovelEntries(n) ==
    IF n = 0 THEN <<>>
    ELSE IF n \in NovelAt
         THEN Append(NovelEntries(n - 1), NewEntry(WalkPath(n), walk0[n].file.filename))
         ELSE NovelEntries(n - 1)

\* C17: the merged template is the existing template, in its order, followed
\* by the novel discovered entries in discovery order.
C17_NovelEntriesAppended ==
    (MergeDone /\ OldPathsUnique) => template = template0 \o NovelEntries(Len(walk0))

\* C18: a discovered file whose path, written with forward slashes and without
\* a leading separator, is already in the template is detected as a duplicate
\* (skipped, not added) whichever separator the platform uses.
C18_SeparatorAgnostic ==
    [][(/\ mpc = "walk"
        /\ walk # <<>>
        /\ EndsWithMp3(Head(walk).file.filename)
        /\ ~InVoicelines(Head(walk).file)
        /\ HasPath(template, CanonicalPath(Head(walk).file)))
          => /\ template' = template
             /\ skipped_count' = skipped_count + 1
             /\ created_count' = created_count]_vars

====
